---- MODULE Spec2Model ----
(***************************************************************************)
(* Model of the serial poller composable (useSerialPoller): one poller     *)
(* instance, its timer, its generation counter, its AbortController and    *)
(* the fetch operations it has started and that have not settled yet.      *)
(*                                                                         *)
(* JavaScript is single threaded: every handler runs to completion, and    *)
(* the only suspension point of runOnce is `await fetcher(...)`.  So one   *)
(* action is the synchronous part of a call (start, stop, runNow, a timer  *)
(* callback) and one action is the continuation of runOnce after the       *)
(* await (try-tail or catch, then finally).                                *)
(***************************************************************************)
EXTENDS Integers, FiniteSets, Sequences, TLC

(* ---------------------------------------------------------------- bounds *)
MaxGen == 2          \* fetch operations started in one behaviour
MaxTimerId == 3      \* timeout ids handed out by setTimeout
IntervalMs == 1000   \* the options.intervalMs the poller is built with
OtherStatus == 500   \* the status of a failure that is not a rate limit
ConfiguredRetryAfterMs == 2000    \* a configured options.defaultRetryAfterMs
ConfiguredMaxRetryAfterMs == 1500 \* a configured options.maxRetryAfterMs

(* ------------------------------------------------------------- constants *)
Null == 0            \* null / undefined of a number-or-null variable
DefaultRetryAfterMs == 1000      \* options.defaultRetryAfterMs ?? 1000
DefaultMaxRetryAfterMs == 60000  \* options.maxRetryAfterMs ?? 60_000
RateLimitStatus == 429           \* apiError?.status === 429

Max(a, b) == IF a >= b THEN a ELSE b
Min(a, b) == IF a <= b THEN a ELSE b

(* ------------------------------------------------------------ the inputs *)
\* SerialPollerOptions: Null stands for an option that is not given.
Concurrencies == {"abortPrevious", "ignoreIfRunning"}
\* The retry delays are either both left to their defaults (1000 within
\* 60000) or both configured, the default above the maximum.
RetryOptions == { <<Null, Null>>,
                  <<ConfiguredRetryAfterMs, ConfiguredMaxRetryAfterMs>> }
OptionSets ==
  { [ intervalMs |-> IntervalMs, immediate |-> im, concurrency |-> c,
      defaultRetryAfterMs |-> r[1], maxRetryAfterMs |-> r[2] ] :
    im \in BOOLEAN, c \in Concurrencies, r \in RetryOptions }

\* The readings of Date.now(): the first when the poller is constructed,
\* and no reading is earlier than the one before.
Clock == {1000, 2000}
StartNow == CHOOSE t \in Clock : \A u \in Clock : t <= u

\* Values a fetch resolves with.
Values == {42}

\* Failures a fetch rejects with: ApiClientError { status?, retryAfter? },
\* or a cancellation (code ERR_CANCELED / axios.isCancel).  retryKind says
\* whether retryAfter is missing, a finite number, or not a finite number.
RetryAfters == {-500, 0, 1200, 70000}
Err(cancel, status, kind, ms) ==
  [ isError |-> TRUE, cancel |-> cancel, status |-> status,
    retryKind |-> kind, retryAfter |-> ms ]
NoError == [ isError |-> FALSE, cancel |-> FALSE, status |-> Null,
             retryKind |-> "absent", retryAfter |-> 0 ]
CancelError == Err(TRUE, Null, "absent", 0)
OtherError == Err(FALSE, OtherStatus, "absent", 0)
RateLimits ==
  { Err(FALSE, RateLimitStatus, "absent", 0),
    Err(FALSE, RateLimitStatus, "nonfinite", 0) }
  \cup { Err(FALSE, RateLimitStatus, "number", ms) : ms \in RetryAfters }

(* ------------------------------------------------------------- the state *)
VARIABLES
  data,        \* Ref<T | null>: latest successful data (Null or a value)
  error,       \* Ref<unknown | null>: latest error (NoError is null)
  loading,     \* Ref<boolean>
  isRunning,   \* Ref<boolean>
  inFlight,    \* Ref<boolean>
  busy,        \* Ref<boolean>: 429 hit, waiting for retry
  busyUntil,   \* Ref<number | null>
  timer,       \* the id kept in `timer` (Null, or an id, possibly one that fired)
  timeouts,    \* the event loop's pending timeouts: records [id, delayMs]
  generation,  \* let generation = 0
  controller,  \* Null, or the generation whose AbortController it is
  signals,     \* per started operation: 0 while its signal is not aborted,
               \* else the value of `generation` its abort listeners saw
  fetches,     \* generations of the fetch operations that have not settled
  now,         \* the last reading of Date.now()
  enabled,     \* the value of options.enabled (a Ref the owner may flip)
  options,     \* SerialPollerOptions, fixed at construction
  rateLimit,   \* the 429 the server answers with when it limits the rate
  step,        \* what the last step did (see Did)
  quiet,       \* stop() was called and neither start() nor runNow() since
  dataGen,     \* the generation of the operation whose value is in data
  errorGen,    \* the generation of the operation whose failure is in error
  restarted    \* the outstanding fetches that a stop() cancelled which
               \* start() followed at once

pollerVars == <<data, error, loading, isRunning, inFlight, busy, busyUntil,
                timer, timeouts, generation, controller, signals, fetches>>
vars == <<data, error, loading, isRunning, inFlight, busy, busyUntil,
          timer, timeouts, generation, controller, signals, fetches,
          now, enabled, options, rateLimit, step, quiet, dataGen, errorGen,
          restarted>>

Gens == 1..MaxGen
TimerIds == 1..MaxTimerId

\* The record of a step: the handler that ran, the generation of the fetch
\* it started, of the controller it aborted and of the fetch that settled
\* (0 for none), the callback it invoked, and whether it cancelled a
\* pending timeout.
Did(act, started, aborted, settled, cb, cleared) ==
  [ act |-> act, started |-> started, aborted |-> aborted,
    settled |-> settled, callback |-> cb, cleared |-> cleared ]

\* The state after useSerialPoller(fetcher, options), for options drawn
\* from opts and a server whose 429 is drawn from limits.
Constructed(opts, limits) ==
  /\ data = Null /\ error = NoError /\ loading = FALSE
  /\ isRunning = FALSE /\ inFlight = FALSE
  /\ busy = FALSE /\ busyUntil = Null
  /\ timer = Null /\ timeouts = {}
  /\ generation = 0 /\ controller = Null
  /\ signals = [g \in Gens |-> 0] /\ fetches = {}
  /\ now = StartNow
  /\ enabled \in BOOLEAN
  /\ options \in opts
  /\ rateLimit \in limits
  /\ step = Did("init", 0, 0, 0, "none", FALSE)
  /\ quiet = FALSE
  /\ dataGen = 0 /\ errorGen = 0
  /\ restarted = {}

\* Spec: the retry delays are left to their defaults and the server's 429
\* carries no Retry-After or one within the maximum.  SpecDelays: every
\* configuration of the retry delays and every shape of Retry-After, under
\* the default concurrency.
DefaultDelayOptions ==
  { o \in OptionSets : o.defaultRetryAfterMs = Null /\ o.maxRetryAfterMs = Null }
PlainRateLimits ==
  { e \in RateLimits :
      \/ e.retryKind = "absent"
      \/ e.retryKind = "number" /\ e.retryAfter > 0
         /\ e.retryAfter < DefaultMaxRetryAfterMs }
Init == Constructed(DefaultDelayOptions, PlainRateLimits)
InitDelays ==
  Constructed({ o \in OptionSets : o.concurrency = "abortPrevious" }, RateLimits)

(* ------------------------------------------------------------ the helpers *)
\* const isEnabled = () => ...
isEnabled == enabled

\* clearTimer: the pair <<timer, timeouts>> after the call.
clearTimerForget(tm, tos) == <<Null, tos>>
clearTimer(tm, tos) ==
  IF tm # Null THEN <<Null, {t \in tos : t.id # tm}>> ELSE <<tm, tos>>

\* setTimeout hands out an id that is not in use.
FreshTimerId(tm, tos) ==
  CHOOSE i \in TimerIds : i # tm /\ \A t \in tos : t.id # i

\* schedule(delayMs): the pair <<timer, timeouts>> after the call.
scheduleChecksFirst(tm, tos, delayMs, running, en) ==
  IF ~running \/ ~en THEN <<tm, tos>>
  ELSE LET c == clearTimer(tm, tos)
           id == FreshTimerId(c[1], c[2])
       IN <<id, c[2] \cup {[id |-> id, delayMs |-> delayMs]}>>
scheduleNoClear(tm, tos, delayMs, running, en) ==
  IF ~running \/ ~en THEN <<tm, tos>>
  ELSE LET id == FreshTimerId(tm, tos)
       IN <<id, tos \cup {[id |-> id, delayMs |-> delayMs]}>>
scheduleStopped(tm, tos, delayMs, running, en) ==
  LET c == clearTimer(tm, tos)
  IN IF ~en THEN c
     ELSE LET id == FreshTimerId(c[1], c[2])
          IN <<id, c[2] \cup {[id |-> id, delayMs |-> delayMs]}>>
schedule(tm, tos, delayMs, running, en) ==
  LET c == clearTimer(tm, tos)
  IN IF ~running THEN c
     ELSE IF ~en THEN c
     ELSE LET id == FreshTimerId(c[1], c[2])
          IN <<id, c[2] \cup {[id |-> id, delayMs |-> delayMs]}>>

\* The timeout `timer` names is still pending.
TimerPending(tm, tos) == \E t \in tos : t.id = tm

\* abortInFlight: the pair <<controller, signals>> after the call; gen is
\* the generation counter when controller.abort() runs its listeners.
abortInFlightSkip(ctl, sig, gen) == <<ctl, sig>>
abortInFlightLate(ctl, sig, gen) ==
  IF ctl # Null
  THEN <<Null, IF sig[ctl] = 0 THEN [sig EXCEPT ![ctl] = gen + 1] ELSE sig>>
  ELSE <<ctl, sig>>
abortInFlight(ctl, sig, gen) ==
  IF ctl # Null
  THEN <<Null, IF sig[ctl] = 0 THEN [sig EXCEPT ![ctl] = gen] ELSE sig>>
  ELSE <<ctl, sig>>

\* parseRetryAfterMs: <<>> stands for null.
parseRetryAfterMs(e) ==
  IF e.retryKind = "number" THEN <<e.retryAfter>> ELSE <<>>

\* clampRetryAfter
clampRetryAfterNoFloor(ms) ==
  LET max == IF options.maxRetryAfterMs = Null THEN DefaultMaxRetryAfterMs
             ELSE options.maxRetryAfterMs
  IN Min(ms, max)
clampRetryAfter(ms) ==
  LET max == IF options.maxRetryAfterMs = Null THEN DefaultMaxRetryAfterMs
             ELSE options.maxRetryAfterMs
  IN Max(0, Min(ms, max))

\* the retry delay of a 429: clampRetryAfter(parse(e) ?? (default ?? 1000))
retryAfterMsOfFixedDefault(e) ==
  LET p == parseRetryAfterMs(e)
  IN clampRetryAfter(IF p # <<>> THEN p[1] ELSE DefaultRetryAfterMs)
retryAfterMsOf(e) ==
  LET p == parseRetryAfterMs(e)
      d == IF options.defaultRetryAfterMs = Null THEN DefaultRetryAfterMs
           ELSE options.defaultRetryAfterMs
  IN clampRetryAfter(IF p # <<>> THEN p[1] ELSE d)

\* retryingInMs when Date.now() reads t: <<>> for null, else <<ms>>.
retryingInMsAlways(bu, t) == <<Max(0, bu - t)>>
retryingInMs(bu, t) == IF bu = Null THEN <<>> ELSE <<Max(0, bu - t)>>

\* currentGen === generation
isLatestOrOlder(currentGen, gen) == currentGen <= gen
isLatestAlways(currentGen, gen) == TRUE
isLatest(currentGen, gen) == currentGen = gen

\* the test of the catch block: code === 'ERR_CANCELED' || axios.isCancel(e)
\* || controller?.signal.aborted, with the controller the poller holds now
isCancelled(e, ctl, sig) ==
  e.cancel \/ (ctl # Null /\ sig[ctl] # 0)

(* ------------------------------------------------------------ the actions *)
Concurrency == options.concurrency   \* options.concurrency ?? 'abortPrevious'

\* A call of runOnce that gets past its two early returns starts a fetch.
StartsCycleDisabled == ~(inFlight /\ Concurrency = "ignoreIfRunning")
StartsCycleAnyway == isEnabled
StartsCycle == isEnabled /\ ~(inFlight /\ Concurrency = "ignoreIfRunning")

\* The generation whose signal a step aborted (0 when it aborted none).
NewlyAborted(sig, sig2) ==
  IF \E g \in Gens : sig[g] = 0 /\ sig2[g] # 0
  THEN CHOOSE g \in Gens : sig[g] = 0 /\ sig2[g] # 0
  ELSE 0

\* runOnce up to `await fetcher(...)`: everything but the timer.
runOnceBegin ==
  IF ~StartsCycle
  THEN UNCHANGED <<generation, controller, signals, fetches, inFlight,
                   loading, busy, busyUntil, error, errorGen>>
  ELSE LET a == IF inFlight THEN abortInFlight(controller, signals, generation)
                ELSE <<controller, signals>>
           currentGen == generation + 1
       IN /\ generation' = currentGen
          /\ controller' = currentGen
          /\ signals' = a[2]
          /\ fetches' = fetches \cup {currentGen}
          /\ inFlight' = TRUE
          /\ loading' = TRUE
          /\ busy' = FALSE
          /\ busyUntil' = Null
          /\ error' = NoError
          /\ errorGen' = 0

\* start()
Start ==
  /\ (options.immediate /\ ~isRunning /\ StartsCycle) => generation < MaxGen
  /\ IF isRunning
     THEN /\ UNCHANGED <<isRunning, timer, timeouts, generation, controller,
                         signals, fetches, inFlight, loading, busy, busyUntil,
                         error, errorGen>>
          /\ step' = Did("start", 0, 0, 0, "none", FALSE)
     ELSE /\ isRunning' = TRUE
          /\ IF options.immediate
             THEN /\ runOnceBegin
                  /\ UNCHANGED <<timer, timeouts>>
                  /\ step' = Did("start", IF generation' # generation THEN generation' ELSE 0,
                                 NewlyAborted(signals, signals'), 0, "none", FALSE)
             ELSE /\ LET s == schedule(timer, timeouts, options.intervalMs,
                                       TRUE, isEnabled)
                     IN timer' = s[1] /\ timeouts' = s[2]
                  /\ UNCHANGED <<generation, controller, signals, fetches,
                                 inFlight, loading, busy, busyUntil, error,
                                 errorGen>>
                  /\ step' = Did("start", 0, 0, 0, "none",
                                 TimerPending(timer, timeouts))
  /\ quiet' = FALSE
  /\ restarted' = IF step.act = "stop" THEN restarted \cup fetches ELSE restarted
  /\ UNCHANGED <<data, dataGen, now, enabled, options, rateLimit>>

\* stop()
StopResetting ==
  /\ isRunning' = FALSE
  /\ LET c == clearTimer(timer, timeouts)
     IN timer' = c[1] /\ timeouts' = c[2]
  /\ LET a == abortInFlight(controller, signals, generation)
     IN controller' = a[1] /\ signals' = a[2]
  /\ generation' = 0
  /\ inFlight' = FALSE
  /\ busy' = FALSE
  /\ busyUntil' = Null
  /\ step' = Did("stop", 0, NewlyAborted(signals, signals'), 0, "none",
                 TimerPending(timer, timeouts))
  /\ quiet' = TRUE
  /\ UNCHANGED <<data, dataGen, error, errorGen, loading, fetches,
                 now, enabled, options, rateLimit, restarted>>
StopInvalidating ==
  /\ isRunning' = FALSE
  /\ LET c == clearTimer(timer, timeouts)
     IN timer' = c[1] /\ timeouts' = c[2]
  /\ LET a == abortInFlight(controller, signals, generation)
     IN controller' = a[1] /\ signals' = a[2]
  /\ generation' = IF generation < MaxGen THEN generation + 1 ELSE generation
  /\ inFlight' = FALSE
  /\ busy' = FALSE
  /\ busyUntil' = Null
  /\ step' = Did("stop", 0, NewlyAborted(signals, signals'), 0, "none",
                 TimerPending(timer, timeouts))
  /\ quiet' = TRUE
  /\ UNCHANGED <<data, dataGen, error, errorGen, loading, fetches,
                 now, enabled, options, rateLimit, restarted>>
Stop ==
  /\ isRunning' = FALSE
  /\ LET c == clearTimer(timer, timeouts)
     IN timer' = c[1] /\ timeouts' = c[2]
  /\ LET a == abortInFlight(controller, signals, generation)
     IN controller' = a[1] /\ signals' = a[2]
  /\ inFlight' = FALSE
  /\ busy' = FALSE
  /\ busyUntil' = Null
  /\ step' = Did("stop", 0, NewlyAborted(signals, signals'), 0, "none",
                 TimerPending(timer, timeouts))
  /\ quiet' = TRUE
  /\ UNCHANGED <<data, dataGen, error, errorGen, loading, generation, fetches,
                 now, enabled, options, rateLimit, restarted>>

\* runNow(), up to the await
RunNow ==
  /\ StartsCycle => generation < MaxGen
  /\ runOnceBegin
  /\ step' = Did("runNow", IF generation' # generation THEN generation' ELSE 0,
                 NewlyAborted(signals, signals'), 0, "none", FALSE)
  /\ quiet' = FALSE
  /\ UNCHANGED <<data, dataGen, isRunning, timer, timeouts, now, enabled,
                 options, rateLimit, restarted>>

\* the callback of setTimeout: () => void runOnce(), up to the await.  How
\* long a fetch takes and when the owner calls are not constrained, so a
\* pending timeout may fire before or after any of them.  The id stays in
\* `timer` after the timeout has fired.
TimerFire ==
  \E t \in timeouts :
    /\ StartsCycle => generation < MaxGen
    /\ timeouts' = timeouts \ {t}
    /\ runOnceBegin
    /\ step' = Did("timer", IF generation' # generation THEN generation' ELSE 0,
                   NewlyAborted(signals, signals'), 0, "none", FALSE)
    /\ UNCHANGED <<data, dataGen, isRunning, timer, now, enabled, options,
                   rateLimit, quiet, restarted>>

\* The test of the finally block before the interval is scheduled:
\* isRunning.value && isEnabled() && !busy.value.
schedulesNextIgnoringBusy(running, en, bsy) == running /\ en
schedulesNext(running, en, bsy) == running /\ en /\ ~bsy

\* runOnce after the await when the fetch of generation currentGen resolved
\* with result: the rest of the try block, then the finally block.
Resolve(currentGen, result) ==
  /\ currentGen \in fetches
  /\ fetches' = fetches \ {currentGen}
  /\ restarted' = restarted \ {currentGen}
  /\ IF isLatest(currentGen, generation)
     THEN data' = result /\ dataGen' = currentGen
     ELSE UNCHANGED <<data, dataGen>>
  /\ IF isLatest(currentGen, generation)
     THEN inFlight' = FALSE /\ loading' = FALSE
     ELSE UNCHANGED <<inFlight, loading>>
  /\ LET again == schedulesNext(isRunning, isEnabled, busy)
         s == IF again
              THEN schedule(timer, timeouts, options.intervalMs, isRunning, isEnabled)
              ELSE <<timer, timeouts>>
     IN /\ timer' = s[1] /\ timeouts' = s[2]
        /\ step' = Did("resolve", 0, 0, currentGen,
                       IF isLatest(currentGen, generation) THEN "onData" ELSE "none",
                       again /\ TimerPending(timer, timeouts))
  /\ UNCHANGED <<error, errorGen, busy, busyUntil, isRunning, generation,
                 controller, signals, now, enabled, options, rateLimit, quiet>>

\* runOnce after the await when the fetch of generation currentGen rejected
\* with e: the catch block, then the finally block.
Reject(currentGen, e) ==
  /\ currentGen \in fetches
  /\ fetches' = fetches \ {currentGen}
  /\ restarted' = restarted \ {currentGen}
  /\ LET suppressed == isCancelled(e, controller, signals)
         rateLimited == ~suppressed /\ e.status = RateLimitStatus
         retryAfterMs == retryAfterMsOf(e)
         s1 == IF rateLimited
               THEN schedule(timer, timeouts, retryAfterMs, isRunning, isEnabled)
               ELSE <<timer, timeouts>>
         busy1 == IF rateLimited THEN TRUE ELSE busy
         again == schedulesNext(isRunning, isEnabled, busy1)
         s2 == IF again
               THEN schedule(s1[1], s1[2], options.intervalMs, isRunning, isEnabled)
               ELSE s1
     IN /\ IF suppressed
           THEN UNCHANGED <<error, errorGen>>
           ELSE error' = e /\ errorGen' = currentGen
        /\ busy' = busy1
        /\ IF rateLimited
           THEN \E t \in Clock :
                  t >= now /\ now' = t /\ busyUntil' = t + retryAfterMs
           ELSE UNCHANGED <<now, busyUntil>>
        /\ timer' = s2[1] /\ timeouts' = s2[2]
        /\ step' = Did("reject", 0, 0, currentGen,
                       IF suppressed THEN "none" ELSE "onError",
                       (rateLimited \/ again) /\ TimerPending(timer, timeouts))
  /\ IF isLatest(currentGen, generation)
     THEN inFlight' = FALSE /\ loading' = FALSE
     ELSE UNCHANGED <<inFlight, loading>>
  /\ UNCHANGED <<data, dataGen, isRunning, generation, controller, signals,
                 enabled, options, rateLimit, quiet>>

\* The fetcher settles one of the outstanding operations.  It rejects with
\* a cancellation only when its signal has been aborted; an aborted
\* operation may as well ignore the signal and resolve or fail on its own.
Settle ==
  \E g \in fetches :
    \/ \E v \in Values : Resolve(g, v)
    \/ Reject(g, OtherError)
    \/ Reject(g, rateLimit)
    \/ signals[g] # 0 /\ Reject(g, CancelError)

\* The owner flips the reactive options.enabled flag.
SetEnabled ==
  /\ enabled' = ~enabled
  /\ step' = Did("setEnabled", 0, 0, 0, "none", FALSE)
  /\ UNCHANGED <<pollerVars, now, options, rateLimit, quiet, dataGen, errorGen,
                 restarted>>

Next == Start \/ Stop \/ RunNow \/ TimerFire \/ Settle \/ SetEnabled

Spec == Init /\ [][Next]_vars
SpecDelays == InitDelays /\ [][Next]_vars

\* SpecSteady: a poller whose enabled predicate is true and stays true.
InitSteady == Init /\ enabled
NextSteady == Start \/ Stop \/ RunNow \/ TimerFire \/ Settle
SpecSteady == InitSteady /\ [][NextSteady]_vars

\* SpecTimed: the predicate stays true and runNow() is never called, so
\* that cycles are started by start() and by the timer only.
NextTimed == Start \/ Stop \/ TimerFire \/ Settle
SpecTimed == InitSteady /\ [][NextTimed]_vars

TypeOK ==
  /\ isRunning \in BOOLEAN /\ inFlight \in BOOLEAN /\ loading \in BOOLEAN
  /\ busy \in BOOLEAN /\ enabled \in BOOLEAN /\ quiet \in BOOLEAN
  /\ generation \in 0..MaxGen /\ controller \in 0..MaxGen
  /\ fetches \subseteq Gens
  /\ timer \in 0..MaxTimerId
  /\ \A t \in timeouts : t.id \in TimerIds

(* -------------------------------------------------------------- the claims *)
Settled == step.act \in {"resolve", "reject"}
Requested == step.act \in {"runNow", "timer"}
Unaborted == {g \in fetches : signals[g] = 0}

\* C1: a fetch that resolves writes data and calls onData exactly when the
\* generation it captured is the generation counter at that moment; a
\* superseded fetch that resolves leaves data alone, and nothing else
\* writes data.
C1_ResultOnlyFromLatest ==
  [][ /\ (step'.act = "resolve" /\ step'.settled = generation')
         => (dataGen' = generation' /\ data' \in Values
             /\ step'.callback = "onData")
      /\ (step'.act = "resolve" /\ step'.settled # generation')
         => (data' = data /\ dataGen' = dataGen /\ step'.callback = "none")
      /\ (data' # data \/ dataGen' # dataGen \/ step'.callback = "onData")
         => (step'.act = "resolve" /\ step'.settled = generation')
    ]_vars
\* the first fetch resolved after the second, which had already committed
C1_Witness ==
  /\ step.act = "resolve" /\ step.settled = 1 /\ generation = 2
  /\ dataGen = 2 /\ signals[1] # 0 /\ fetches = {}

\* C2: error only ever holds the failure of the fetch of the current
\* generation: a fetch that fails writes error only if its generation is
\* still the generation counter.
C2_ErrorOnlyFromLatest ==
  [][ (step'.act = "reject" /\ step'.settled # generation')
      => (error' = error /\ errorGen' = errorGen) ]_vars

\* C3: the failure of a fetch whose signal was aborted, by a superseding
\* cycle or by stop(), is not reported: error is not written, onError is
\* not called, busy and busyUntil are not set.
C3_AbortedNeverReports ==
  [][ (step'.act = "reject" /\ signals[step'.settled] # 0)
      => (error' = error /\ step'.callback = "none"
          /\ busy' = busy /\ busyUntil' = busyUntil) ]_vars

\* C4: among the fetches that have not settled at most one has a signal
\* that is not aborted.
C4_AtMostOneLiveHandle == Cardinality(Unaborted) <= 1
\* two fetches outstanding, the older aborted and the newer not
C4_Witness ==
  /\ fetches = {1, 2} /\ signals[1] # 0 /\ signals[2] = 0 /\ controller = 2

\* C5: when a cycle starts while another is in flight under abortPrevious,
\* the controller of the one in flight is aborted while the generation
\* counter still has its old value, and the controller the poller holds
\* afterwards is a new, un-aborted one.
C5_AbortBeforeNewHandle ==
  [][ (inFlight /\ step'.started # 0 /\ Concurrency = "abortPrevious")
      => /\ controller = generation
         /\ signals'[controller] = generation
         /\ step'.started = generation + 1
         /\ controller' = generation + 1
         /\ signals'[controller'] = 0 ]_vars
\* runNow() superseded the fetch of generation 1, which is still outstanding
C5_Witness ==
  /\ Requested /\ step.started = 2 /\ step.aborted = 1
  /\ Concurrency = "abortPrevious" /\ 1 \in fetches

\* C6: under ignoreIfRunning a cycle requested while inFlight changes
\* nothing: generation, controller, signals, the outstanding fetches, data,
\* error and inFlight stay as they are and no fetch is started.
C6_IgnoreIfRunningNoOp ==
  [][ (step'.act \in {"runNow", "timer"} /\ isEnabled /\ inFlight
       /\ Concurrency = "ignoreIfRunning")
      => /\ UNCHANGED <<generation, controller, signals, fetches, data,
                        dataGen, error, errorGen, inFlight>>
         /\ step'.started = 0 /\ step'.aborted = 0 ]_vars
\* a timeout fired while the only fetch was in flight and was ignored
C6_Witness ==
  /\ step.act = "timer" /\ step.started = 0 /\ isEnabled /\ inFlight
  /\ Concurrency = "ignoreIfRunning" /\ fetches = {generation}

\* C7: at most one timeout is pending, and it is the one `timer` names.
C7_AtMostOneTimeout ==
  /\ Cardinality(timeouts) <= 1
  /\ \A t \in timeouts : t.id = timer
\* a settling fetch rescheduled over a timeout that was still pending
C7_Witness ==
  /\ Settled /\ step.cleared /\ Cardinality(timeouts) = 1

\* C8: from stop() to the next start() or runNow() the poller is not
\* running, no timeout is pending and it holds no controller, whatever
\* the fetches that were in flight do when they settle.
C8_StoppedHoldsNothing ==
  quiet => (~isRunning /\ timeouts = {} /\ timer = Null /\ controller = Null)
\* a fetch cancelled by stop() failed with a 429 afterwards
C8_Witness ==
  /\ quiet /\ step.act = "reject" /\ step.callback = "onError"
  /\ error.status = RateLimitStatus /\ isEnabled

\* C9: stop() right after stop() changes nothing of the poller's state.
C9_StopIdempotent ==
  [][ (step.act = "stop" /\ step'.act = "stop")
      => UNCHANGED pollerVars ]_vars
\* stop() has just aborted a fetch and cancelled a timeout
C9_Witness ==
  /\ step.act = "stop" /\ step.aborted # 0 /\ step.cleared /\ fetches # {}

\* C10: from stop() to the next start() or runNow() no cycle starts: the
\* generation counter keeps its value and no fetch is started.
C10_NoCycleWhileStopped ==
  [][ (quiet /\ quiet')
      => (generation' = generation /\ fetches' \subseteq fetches
          /\ step'.started = 0) ]_vars
\* the fetch in flight at stop() resolved while the poller was stopped
C10_Witness ==
  /\ quiet /\ step.act = "resolve" /\ step.settled = generation /\ isEnabled


\* C11: from stop() to the next start() or runNow() busy is false and
\* busyUntil is empty, whatever the fetches that were in flight do when
\* they settle.
C11_StoppedNotBusy == quiet => (~busy /\ busyUntil = Null)


\* C12: a fetch that was in flight when stop() was called, with start()
\* called right after, never acts on the poller when it settles: data and
\* error are not written, no callback is invoked, busy and busyUntil are
\* not set, with or without options.immediate.
C12_RestartDropsCancelled ==
  [][ (step'.act \in {"resolve", "reject"} /\ step'.settled \in restarted)
      => /\ data' = data /\ dataGen' = dataGen
         /\ error' = error /\ errorGen' = errorGen
         /\ step'.callback = "none"
         /\ busy' = busy /\ busyUntil' = busyUntil ]_vars


\* A step in which a fetch failed with the rate-limit status and the
\* failure was taken as such (not suppressed as a cancellation).
RateLimited(e) ==
  /\ step'.act = "reject" /\ step'.callback = "onError"
  /\ error' = e /\ e.status = RateLimitStatus
\* The maximum retry delay in force.
MaxDelay ==
  IF options.maxRetryAfterMs = Null THEN 60000 ELSE options.maxRetryAfterMs

\* C13: when a fetch fails with a 429 that carries a retry delay d, busy
\* is set, busyUntil is the clock plus d clamped to [0, maximum] and, if a
\* timeout is set, it is set for that delay: 0 for a negative d, the
\* maximum for a d above it, d otherwise, and not options.intervalMs.
C13_SuggestedDelayClamped ==
  [][ \A d \in RetryAfters :
        RateLimited(Err(FALSE, RateLimitStatus, "number", d))
        => LET delay == IF d < 0 THEN 0 ELSE IF d > MaxDelay THEN MaxDelay ELSE d
           IN /\ busy' /\ busyUntil' = now' + delay
              /\ \A t \in timeouts' : t.delayMs = delay
              /\ (isRunning /\ isEnabled) => timeouts' # {}
              /\ delay # options.intervalMs ]_vars
\* a running poller backed off on a negative Retry-After: the timeout is
\* set for 0 ms and busyUntil is the clock
C13_Witness ==
  /\ step.act = "reject" /\ step.callback = "onError" /\ busy
  /\ error.retryKind = "number" /\ error.retryAfter < 0
  /\ busyUntil = now /\ \E t \in timeouts : t.delayMs = 0


\* The default retry delay in force.
DefaultDelay ==
  IF options.defaultRetryAfterMs = Null THEN 1000 ELSE options.defaultRetryAfterMs
\* The 429s that carry no usable retry delay: retryAfter missing or not a
\* finite number.
Unhinted == { e \in RateLimits : e.retryKind # "number" }

\* C14 as stated: when a fetch fails with a 429 that carries no retry
\* delay, busyUntil is the clock plus the default retry delay and the
\* timeout is set for the default retry delay, whatever the default and
\* the maximum are configured to.
C14_DefaultDelayUsed ==
  [][ \A e \in Unhinted :
        RateLimited(e)
        => /\ busy' /\ busyUntil' = now' + DefaultDelay
           /\ \A t \in timeouts' : t.delayMs = DefaultDelay ]_vars

\* C14 amended: the delay is the default retry delay clamped to
\* [0, maximum]: the default itself unless it is above the maximum.
C14_DefaultDelayClamped ==
  [][ \A e \in Unhinted :
        RateLimited(e)
        => LET delay == IF DefaultDelay < 0 THEN 0
                        ELSE IF DefaultDelay > MaxDelay THEN MaxDelay
                        ELSE DefaultDelay
           IN /\ busy' /\ busyUntil' = now' + delay
              /\ \A t \in timeouts' : t.delayMs = delay
              /\ (isRunning /\ isEnabled) => timeouts' # {} ]_vars
\* a running poller with a default delay configured above the maximum
\* backed off on a 429 without Retry-After: the timeout is set for the
\* maximum
C14_Witness ==
  /\ step.act = "reject" /\ step.callback = "onError" /\ busy
  /\ error.status = RateLimitStatus /\ error.retryKind = "absent"
  /\ DefaultDelay > MaxDelay
  /\ busyUntil = now + MaxDelay /\ \E t \in timeouts : t.delayMs = MaxDelay


\* A fetch failed with the rate-limit status and the failure was reported.
RateLimitReported ==
  /\ step'.act = "reject" /\ step'.callback = "onError"
  /\ error'.status = RateLimitStatus
\* The backoff delay of the failure e: the suggested delay, or the default
\* when there is none, clamped to [0, maximum].
ClampedDelay(e) ==
  LET raw == IF e.retryKind = "number" THEN e.retryAfter ELSE DefaultDelay
  IN IF raw < 0 THEN 0 ELSE IF raw > MaxDelay THEN MaxDelay ELSE raw
\* The state after a rate-limit failure: busy, busyUntil set, and exactly
\* one timeout pending, the one the timer names, due after the backoff
\* delay.
BackedOff ==
  /\ busy' /\ busyUntil' # Null
  /\ Cardinality(timeouts') = 1
  /\ \A t \in timeouts' :
       /\ t.id = timer'
       /\ t.delayMs = ClampedDelay(error')
       /\ busyUntil' = now' + t.delayMs

\* C15 as stated: when a fetch of a running poller fails with 429, then
\* after the cycle busy is true, busyUntil is set and exactly one timeout
\* is pending, due after the clamped backoff delay and not replaced by the
\* interval scheduling.
C15_BackoffSchedulesOne ==
  [][ (RateLimitReported /\ isRunning) => BackedOff ]_vars

\* C15 amended: the same for a running poller whose enabled predicate is
\* true when the fetch fails.
\* When the predicate is false at that moment busy and busyUntil are set
\* all the same, and no timeout is pending.
C15_EnabledBackoffSchedulesOne ==
  [][ /\ (RateLimitReported /\ isRunning /\ isEnabled) => BackedOff
      /\ (RateLimitReported /\ isRunning /\ ~isEnabled)
         => (busy' /\ busyUntil' # Null /\ timeouts' = {} /\ timer' = Null)
    ]_vars
\* a running, enabled poller backed off on a 429 that suggested a delay
\* other than the interval, and holds one timeout for that delay
C15_Witness ==
  /\ step.act = "reject" /\ step.callback = "onError"
  /\ error.status = RateLimitStatus /\ error.retryKind = "number"
  /\ isRunning /\ isEnabled /\ busy /\ busyUntil # Null
  /\ Cardinality(timeouts) = 1
  /\ \A t \in timeouts : t.id = timer /\ t.delayMs # options.intervalMs


\* C16: when the timeout set by a backoff fires, runOnce sets busy to
\* false and busyUntil to null, also when it returns early because the
\* predicate is false or a fetch is in flight under ignoreIfRunning.
C16_BackoffTimerClearsBusy ==
  [][ (step'.act = "timer" /\ busy) => (~busy' /\ busyUntil' = Null) ]_vars

\* C17: right after the fetch of the current generation resolves, busy is
\* false and busyUntil is null, whatever other fetches did in between.
C17_SuccessMeansNotBusy ==
  [][ (step'.act = "resolve" /\ step'.settled = generation')
      => (~busy' /\ busyUntil' = Null) ]_vars


\* C18: failures never end the loop.  While the predicate stays true, a
\* running poller always has a timeout pending or a fetch outstanding, so
\* that a new cycle follows every completion: there is no state with
\* isRunning true, no timeout pending and no fetch in flight.
C18_RunningLoopAlive ==
  isRunning => (timeouts # {} \/ inFlight \/ fetches # {})


\* A step that calls runOnce: runNow(), a fired timeout, or start() of a
\* stopped poller with immediate set.
CycleRequested ==
  \/ step'.act \in {"runNow", "timer"}
  \/ step'.act = "start" /\ ~isRunning /\ options.immediate

\* C19: a cycle requested while the enabled predicate is false has no side
\* effect: generation, controller, timer, data, error, inFlight, loading,
\* busy and busyUntil are unchanged, no fetch is started, no signal is
\* aborted and no timeout is set.
C19_DisabledCycleNoEffect ==
  [][ (CycleRequested /\ ~isEnabled)
      => /\ UNCHANGED <<generation, controller, signals, fetches, timer,
                        data, dataGen, error, errorGen, inFlight, loading,
                        busy, busyUntil>>
         /\ timeouts' \subseteq timeouts
         /\ step'.act # "timer" => timeouts' = timeouts
         /\ step'.started = 0 /\ step'.aborted = 0
         /\ step'.callback = "none" ]_vars
\* a timeout fired while the predicate was false, with a fetch in flight
\* under abortPrevious and a backoff in force: nothing was started and
\* nothing aborted
C19_Witness ==
  /\ step.act = "timer" /\ ~isEnabled
  /\ step.started = 0 /\ step.aborted = 0
  /\ fetches # {} /\ inFlight /\ Concurrency = "abortPrevious"
  /\ controller # Null /\ signals[controller] = 0


\* A step that calls schedule(delay) whatever isRunning and the predicate
\* are: the 429 path of runOnce with the backoff delay, and start() of a
\* stopped poller without immediate, with the interval.
ScheduleCalled(delay) ==
  \/ RateLimitReported /\ delay = ClampedDelay(error')
  \/ /\ step'.act = "start" /\ ~isRunning /\ ~options.immediate
     /\ delay = options.intervalMs
Delays == {0, IntervalMs, DefaultRetryAfterMs} \cup RetryAfters

\* C20 as stated: schedule(delay) with the poller not running or the
\* predicate false leaves the pending timeout as it was.
C20_ScheduleNoOpKeepsTimeout ==
  [][ \A d \in Delays :
        (ScheduleCalled(d) /\ (~isRunning' \/ ~isEnabled))
        => timeouts' = timeouts ]_vars

\* C20 amended: schedule(delay) always cancels the pending timeout; with
\* the poller not running or the predicate false it sets no new one, the
\* timer is left null and no timeout is pending; otherwise the one
\* timeout pending afterwards is the one it set for delay, which the timer
\* names.
C20_ScheduleClearsThenSets ==
  [][ \A d \in Delays :
        ScheduleCalled(d)
        => IF ~isRunning' \/ ~isEnabled
           THEN timer' = Null /\ timeouts' = {}
           ELSE /\ timer' # Null
                /\ timeouts' = {[id |-> timer', delayMs |-> d]} ]_vars
\* a 429 arrived at a running poller whose predicate was false and that
\* had a timeout pending: the timeout was cancelled and none was set
C20_Witness ==
  /\ step.act = "reject" /\ step.callback = "onError"
  /\ error.status = RateLimitStatus
  /\ step.cleared /\ ~isEnabled /\ isRunning
  /\ timeouts = {} /\ timer = Null /\ busy


\* The fetches a step started.
Started == fetches' \ fetches

\* C21: the generation counter never decreases and is never reset.  A
\* step that starts a fetch increases it by exactly one and gives the
\* fetch the new value, which no outstanding fetch holds; every other
\* step (stop(), start() without immediate, a settled fetch, an ignored
\* request) leaves it unchanged.
C21_GenerationMonotonic ==
  [][ /\ generation' >= generation
      /\ IF Started # {}
         THEN /\ generation' = generation + 1
              /\ Started = {generation'}
              /\ step'.started = generation'
              /\ \A g \in fetches : g < generation'
         ELSE generation' = generation /\ step'.started = 0 ]_vars
\* start() after a stop() started fetch 2 while the fetch 1 that stop()
\* cancelled is still outstanding
C21_Witness ==
  /\ step.act = "start" /\ step.started = 2 /\ generation = 2
  /\ fetches = {1, 2} /\ signals[1] # 0 /\ signals[2] = 0


\* C22: loading and inFlight are equal in every state, also after stop()
\* was called while a fetch was outstanding.
C22_LoadingIsInFlight == loading = inFlight

\* C23: busyUntil is set exactly when busy is true, and retryingInMs is
\* null whenever busy is false, whatever the clock reads.
C23_BusyUntilIffBusy ==
  /\ busy <=> busyUntil # Null
  /\ \A t \in Clock :
       t >= now => (~busy <=> retryingInMs(busyUntil, t) = <<>>)
\* a backoff that was in force has been lifted by the cycle the timeout
\* started: busy is false, busyUntil null and the countdown null, while the
\* 429 that caused it is the last failure on record
C23_Witness ==
  /\ ~busy /\ busyUntil = Null /\ retryingInMs(busyUntil, now) = <<>>
  /\ step.act = "timer" /\ step.started = 2 /\ inFlight
  /\ restarted = {} /\ fetches = {2} /\ dataGen = 0


\* C24: a failure committed to error stays there until the outcome of the
\* next cycle is committed: error changes only in a step that settles a
\* fetch, becomes null only when a fetch resolves, and is still set while
\* the next fetch is outstanding.
C24_ErrorKeptUntilNextOutcome ==
  [][ (error # NoError /\ error' # error)
      => /\ step'.act \in {"resolve", "reject"}
         /\ error' = NoError => step'.act = "resolve" ]_vars


\* The fetch of the current generation is outstanding and stop() has not
\* cancelled it.
CurrentOutstanding ==
  generation \in fetches /\ signals[generation] = 0

\* C25: inFlight is true exactly when the fetch of the current generation
\* is outstanding and not cancelled by stop().
C25_InFlightIsCurrentFetch == inFlight <=> CurrentOutstanding
\* C25, the steps: a superseded fetch that settles while the newer one is
\* outstanding leaves inFlight true; the current fetch that settles sets
\* inFlight to false.
C25_OnlyCurrentClearsInFlight ==
  [][ /\ ( /\ step'.act \in {"resolve", "reject"}
           /\ step'.settled < generation /\ CurrentOutstanding )
         => inFlight'
      /\ ( /\ step'.act \in {"resolve", "reject"}
           /\ step'.settled = generation )
         => ~inFlight' ]_vars
\* C25: both together, the invariant and the steps.
C25_InFlightTracksCurrent ==
  []C25_InFlightIsCurrentFetch /\ C25_OnlyCurrentClearsInFlight
\* a superseded fetch has settled while the newer one is outstanding, and
\* inFlight is still true
C25_Witness ==
  /\ step.act \in {"resolve", "reject"} /\ step.settled = 1
  /\ generation = 2 /\ fetches = {2} /\ signals[2] = 0 /\ inFlight


\* C26: a superseded fetch that fails changes neither the backoff state
\* nor the pending timeout: busy, busyUntil, timer and timeouts are as
\* before and no timeout was cancelled.
C26_StaleFailureKeepsBackoff ==
  [][ (step'.act = "reject" /\ step'.settled < generation)
      => /\ UNCHANGED <<busy, busyUntil, timer, timeouts>>
         /\ ~step'.cleared ]_vars

\* C27: when cycles are started by start() and the timer only and the
\* predicate is always true, no timeout is pending while a fetch is in
\* flight.
C27_NoTimeoutWhileInFlight == ~(inFlight /\ timeouts # {})

====
